---- MODULE Spec2Model ----
(***************************************************************************)
(* A model of the Confetti lexer and parser of confetti-go.                *)
(*                                                                         *)
(*   parse  (src/go/lex.go, second file of the listing, lines 447-534)     *)
(*     is modelled as a state machine over a stack of activation frames:   *)
(*     one action per case of the token switch, one for the return of a    *)
(*     recursive call and one for the return of the outermost call.        *)
(*   lex    (src/go/lex.go lines 271-430) is modelled further below.       *)
(*                                                                         *)
(* Indices are 0-based as in the Go source; the token at Go index i of a   *)
(* slice ts is ts[i + 1] here.                                             *)
(***************************************************************************)
EXTENDS Integers, Sequences, FiniteSets, TLC

VARIABLES
    tokens,     \* the argument of the outermost call of parse
    stack,      \* activation frames of parse, innermost last
    result,     \* what the outermost call of parse has returned, if anything
    source,     \* the argument src of lex, a sequence of scalar values
    exts,       \* the Extensions argument of lex
    stream,     \* the stream s of lex: [src, pos]
    lexTs,      \* the named result ts of lex while it runs
    deferred,   \* whether the deferred append of the ^Z token is registered
    lexed,      \* what lex has returned, if anything
    call        \* a call of checkEscape or of an argument lexer, taken alone

pvars == <<tokens, stack, result>>
lvars == <<source, exts, stream, lexTs, deferred, lexed>>
cvars == <<call>>
vars == <<pvars, lvars, cvars>>

----------------------------------------------------------------------------
(* Bounds of the model *)

MaxLen == 5

----------------------------------------------------------------------------
(* Tokens *)

Token(type, content) == [Type |-> type, Content |-> content]

\* The zero value of the token struct: Type is the first constant of the
\* enumeration, Content is the empty string.
ZeroToken == Token("TokUnicode", "")

\* The tokens the inputs of parse are drawn from: two argument contents, so
\* that order is observable, and one token of every other kind.
TokenAlphabet ==
    {Token("TokUnicode", ""),
     Token("TokArgument", "a"), Token("TokArgument", "b"),
     Token("TokNewline", ""), Token("TokLineContinuation", ""),
     Token("TokWhitespace", ""), Token("TokComment", ""),
     Token("TokSemicolon", ""), Token("TokOpenBrace", ""),
     Token("TokCloseBrace", "")}

TokenSeqs == UNION {[1..n -> TokenAlphabet] : n \in 0..MaxLen}

----------------------------------------------------------------------------
(* Directives and the errors of parse *)

Directive(args, subs) == [Arguments |-> args, Subdirectives |-> subs]

\* Directive{}: Arguments == nil, Subdirectives == nil
EmptyDirective == Directive(<<>>, <<>>)

UnexpectedSemicolon == "unexpected ';'"
UnexpectedOpenBrace == "unexpected '{'"
UnterminatedBlock == "expected '}'"
UnmatchedCloseBrace == "found '}' without matching '{'"
UnexpectedLineContinuation == "unexpected line continuation"
\* p[len(p)-1] with len(p) == 0: the Go runtime panics
IndexOutOfRange == "panic: runtime error: index out of range [-1]"

Running == [status |-> "running", err |-> "", p |-> <<>>]
Returned(p) == [status |-> "ok", err |-> "", p |-> p]
\* return nil, err
Failed(err) == [status |-> "error", err |-> err, p |-> <<>>]
Panicked(msg) == [status |-> "panic", err |-> msg, p |-> <<>>]

----------------------------------------------------------------------------
(* The closures and loops of parse *)

Frame(ts, i, current, p) == [ts |-> ts, i |-> i, current |-> current, p |-> p]

\* a mutant of push: commits the directive under construction unconditionally
pushAlways(f) ==
    [f EXCEPT !.p = Append(f.p, f.current), !.current = EmptyDirective]

\* push := func() { if current.Arguments == nil { return }; p = append(p, current); current = Directive{} }
push(f) ==
    IF f.current.Arguments = <<>>
    THEN f
    ELSE [f EXCEPT !.p = Append(f.p, f.current), !.current = EmptyDirective]

RECURSIVE prevScan(_, _, _)
\* the loop of prevSignificant: for i--; i > 0; i-- { if prev = ts[i]; significant { return } }; return
prevScan(ts, j, prev) ==
    IF j > 0
    THEN LET t == ts[j + 1]
         IN  IF t.Type # "TokWhitespace" /\ t.Type # "TokComment"
             THEN t
             ELSE prevScan(ts, j - 1, t)
    ELSE prev

prevSignificant(ts, i) == prevScan(ts, i - 1, ZeroToken)

RECURSIVE blockScanFirstClose(_, _, _, _)
\* a mutant of blockScan: the scan ends at the first close brace, nested or not
blockScanFirstClose(ts, j, depth, subts) ==
    IF j < Len(ts)
    THEN IF ts[j + 1].Type = "TokCloseBrace"
         THEN [i |-> j, depth |-> -1, subts |-> subts]
         ELSE blockScanFirstClose(ts, j + 1, depth, Append(subts, ts[j + 1]))
    ELSE [i |-> j, depth |-> depth, subts |-> subts]

RECURSIVE blockScan(_, _, _, _)
\* for i++; i < len(ts); i++ { depth++ / depth--; if depth < 0 { break }; subts = append(subts, t) }
blockScan(ts, j, depth, subts) ==
    IF j < Len(ts)
    THEN LET t == ts[j + 1]
             d == IF t.Type = "TokOpenBrace" THEN depth + 1
                  ELSE IF t.Type = "TokCloseBrace" THEN depth - 1
                  ELSE depth
         IN  IF d < 0
             THEN [i |-> j, depth |-> d, subts |-> subts]
             ELSE blockScan(ts, j + 1, d, Append(subts, t))
    ELSE [i |-> j, depth |-> depth, subts |-> subts]

----------------------------------------------------------------------------
(* The state of parse *)

top == stack[Len(stack)]
InLoop == result.status = "running" /\ Len(stack) > 0 /\ top.i < Len(top.ts)
AtToken(type) == InLoop /\ top.ts[top.i + 1].Type = type

\* the innermost frame replaced by f
SetTop(f) == [stack EXCEPT ![Len(stack)] = f]
\* i++ of the for statement
Advance(f) == [f EXCEPT !.i = f.i + 1]

\* A call of checkEscape or of an argument lexer: the function, its
\* arguments quoted and exts, the stream, the locals of its loop and what it
\* has returned, if it has.
Call(fn, quoted, e, st) ==
    [fn |-> fn, quoted |-> quoted, e |-> e, from |-> st.pos, s |-> st,
     endsMatched |-> 0, arg |-> <<>>, ogarg |-> <<>>,
     status |-> "running", err |-> "", r |-> 0, escaped |-> FALSE]

\* no call is taken alone
CallIdle == call = [Call("none", 0, {}, [src |-> <<>>, pos |-> 0]) EXCEPT !.status = "idle"]

\* lex is not running
LexIdle ==
    /\ source = <<>>
    /\ exts = {}
    /\ stream = [src |-> <<>>, pos |-> 0]
    /\ lexTs = <<>>
    /\ deferred = FALSE
    /\ lexed = [status |-> "idle", err |-> "", ts |-> <<>>]

ParseInit ==
    /\ tokens \in TokenSeqs
    /\ stack = <<Frame(tokens, 0, EmptyDirective, <<>>)>>
    /\ result = Running
    /\ LexIdle
    /\ CallIdle

\* a mutant of appendArgument: the argument is put in front
prependArgument(f, t) ==
    [f EXCEPT !.current.Arguments = <<t.Content>> \o f.current.Arguments]

\* current.Arguments = append(current.Arguments, t.Content)
appendArgument(f, t) ==
    [f EXCEPT !.current.Arguments = Append(f.current.Arguments, t.Content)]

ParseArgument ==
    /\ AtToken("TokArgument")
    /\ stack' = SetTop(Advance(appendArgument(top, top.ts[top.i + 1])))
    /\ UNCHANGED <<tokens, result, lvars, cvars>>

semicolonRejected(ts, i) ==
    prevSignificant(ts, i).Type \in
        {"TokSemicolon", "TokNewline", "TokLineContinuation"}

ParseSemicolon ==
    /\ AtToken("TokSemicolon")
    /\ IF semicolonRejected(top.ts, top.i)
       THEN /\ result' = Failed(UnexpectedSemicolon)
            /\ UNCHANGED <<tokens, stack, lvars, cvars>>
       ELSE \* fallthrough
            /\ stack' = SetTop(Advance(push(top)))
            /\ UNCHANGED <<tokens, result, lvars, cvars>>

ParseNewline ==
    /\ AtToken("TokNewline")
    /\ stack' = SetTop(Advance(push(top)))
    /\ UNCHANGED <<tokens, result, lvars, cvars>>

\* case TokComment, TokWhitespace: and, the switch having no default, any
\* token type without a case
ParseIgnored ==
    /\ \/ AtToken("TokComment")
       \/ AtToken("TokWhitespace")
       \/ AtToken("TokUnicode")
    /\ stack' = SetTop(Advance(top))
    /\ UNCHANGED <<tokens, result, lvars, cvars>>

openBraceRejected(ts, i) ==
    i = Len(ts) - 1 \/ prevSignificant(ts, i).Type = "TokSemicolon"

\* The open brace up to the recursive call: the caller is left at the index
\* of the matching close brace, the callee starts on the captured tokens.
ParseOpenBrace ==
    /\ AtToken("TokOpenBrace")
    /\ IF openBraceRejected(top.ts, top.i)
       THEN /\ result' = Failed(UnexpectedOpenBrace)
            /\ UNCHANGED <<tokens, stack, lvars, cvars>>
       ELSE LET s == blockScan(top.ts, top.i + 1, 0, <<>>)
            IN  IF s.depth >= 0
                THEN /\ result' = Failed(UnterminatedBlock)
                     /\ UNCHANGED <<tokens, stack, lvars, cvars>>
                ELSE /\ stack' = Append(SetTop([top EXCEPT !.i = s.i]),
                                        Frame(s.subts, 0, EmptyDirective, <<>>))
                     /\ UNCHANGED <<tokens, result, lvars, cvars>>

\* a mutant of closeBraceResult: the close brace is skipped
closeBraceSkipped == Running

closeBraceResult == Failed(UnmatchedCloseBrace)

ParseCloseBrace ==
    /\ AtToken("TokCloseBrace")
    /\ result' = closeBraceResult
    /\ stack' = IF result'.status = "running" THEN SetTop(Advance(top)) ELSE stack
    /\ UNCHANGED <<tokens, lvars, cvars>>

\* a mutant of ParseLineContinuation: the token ends the directive, as a
\* newline does
ParseLineContinuationAsNewline ==
    /\ AtToken("TokLineContinuation")
    /\ stack' = SetTop(Advance(push(top)))
    /\ UNCHANGED <<tokens, result, lvars, cvars>>

ParseLineContinuation ==
    /\ AtToken("TokLineContinuation")
    /\ IF top.current.Arguments = <<>>
       THEN /\ result' = Failed(UnexpectedLineContinuation)
            /\ UNCHANGED <<tokens, stack, lvars, cvars>>
       ELSE /\ stack' = SetTop(Advance(top))
            /\ UNCHANGED <<tokens, result, lvars, cvars>>

AtEnd == result.status = "running" /\ Len(stack) > 0 /\ top.i = Len(top.ts)

\* a mutant of attachToPrevious: the block is added to the subdirectives
\* that the directive has
extendPrevious(p, subp) ==
    [p EXCEPT ![Len(p)].Subdirectives = p[Len(p)].Subdirectives \o subp]

\* p[len(p)-1].Subdirectives = subp
attachToPrevious(p, subp) == [p EXCEPT ![Len(p)].Subdirectives = subp]

\* The return of a recursive call (the final push() and return of the callee)
\* and the rest of the open brace case in the caller.
ParseBlockReturn ==
    /\ AtEnd
    /\ Len(stack) > 1
    /\ LET subp == push(top).p
           caller == stack[Len(stack) - 1]
           callers == SubSeq(stack, 1, Len(stack) - 2)
       IN  IF caller.current.Arguments = <<>>
           THEN \* push to the previous directive
                IF Len(caller.p) = 0
                THEN /\ result' = Panicked(IndexOutOfRange)
                     /\ UNCHANGED <<tokens, stack, lvars, cvars>>
                ELSE /\ stack' = Append(callers, Advance(
                            [caller EXCEPT !.p = attachToPrevious(caller.p, subp)]))
                     /\ UNCHANGED <<tokens, result, lvars, cvars>>
           ELSE /\ stack' = Append(callers, Advance(push(
                            [caller EXCEPT !.current.Subdirectives = subp])))
                /\ UNCHANGED <<tokens, result, lvars, cvars>>

\* The end of the loop of the outermost call: push(); return
ParseReturn ==
    /\ AtEnd
    /\ Len(stack) = 1
    /\ result' = Returned(push(top).p)
    /\ stack' = <<>>
    /\ UNCHANGED <<tokens, lvars, cvars>>

ParseNext ==
    \/ ParseArgument
    \/ ParseSemicolon
    \/ ParseNewline
    \/ ParseIgnored
    \/ ParseOpenBrace
    \/ ParseCloseBrace
    \/ ParseLineContinuation
    \/ ParseBlockReturn
    \/ ParseReturn

RECURSIVE parseLoop(_)
\* parse as a function: the loop of a call from the state f of its locals
\* to its return, the recursive calls included, with the cases, closures
\* and scans of the actions above.
parseLoop(f) ==
    IF f.i >= Len(f.ts)
    THEN Returned(push(f).p)
    ELSE LET t == f.ts[f.i + 1]
         IN  CASE t.Type = "TokArgument" ->
                    parseLoop(Advance(appendArgument(f, t)))
               [] t.Type = "TokSemicolon" ->
                    IF semicolonRejected(f.ts, f.i)
                    THEN Failed(UnexpectedSemicolon)
                    ELSE parseLoop(Advance(push(f)))
               [] t.Type = "TokNewline" ->
                    parseLoop(Advance(push(f)))
               [] t.Type = "TokOpenBrace" ->
                    IF openBraceRejected(f.ts, f.i)
                    THEN Failed(UnexpectedOpenBrace)
                    ELSE LET s == blockScan(f.ts, f.i + 1, 0, <<>>)
                         IN  IF s.depth >= 0
                             THEN Failed(UnterminatedBlock)
                             ELSE LET sub == parseLoop(Frame(s.subts, 0, EmptyDirective, <<>>))
                                      g == [f EXCEPT !.i = s.i]
                                  IN  IF sub.status # "ok"
                                      THEN sub
                                      ELSE IF g.current.Arguments = <<>>
                                           THEN IF Len(g.p) = 0
                                                THEN Panicked(IndexOutOfRange)
                                                ELSE parseLoop(Advance(
                                                        [g EXCEPT !.p = attachToPrevious(g.p, sub.p)]))
                                           ELSE parseLoop(Advance(push(
                                                    [g EXCEPT !.current.Subdirectives = sub.p])))
               [] t.Type = "TokCloseBrace" ->
                    Failed(UnmatchedCloseBrace)
               [] t.Type = "TokLineContinuation" ->
                    IF f.current.Arguments = <<>>
                    THEN Failed(UnexpectedLineContinuation)
                    ELSE parseLoop(Advance(f))
               [] OTHER ->
                    parseLoop(Advance(f))

parse(ts) == parseLoop(Frame(ts, 0, EmptyDirective, <<>>))

----------------------------------------------------------------------------
(* The classifier and the stream of lex. A string is the sequence of its     *)
(* scalar values, a scalar value is its code point.                          *)

MaxSrc == 3

lineTerminators == {10, 11, 12, 13, 133, 8232, 8233}

isLineTerminator(r) == r \in lineTerminators

\* unicode.IsSpace: the scalar values with the White_Space property
unicodeIsSpace(r) ==
    r \in {9, 10, 11, 12, 13, 32, 133, 160, 5760, 8232, 8233, 8239, 8287, 12288}
        \cup (8192..8202)

isWhitespace(r) == ~isLineTerminator(r) /\ unicodeIsSpace(r)

isControl(r) ==
    /\ (r <= 31 \/ (r >= 127 /\ r <= 159))
    /\ ~isLineTerminator(r)
    /\ ~unicodeIsSpace(r)

isSurrogate(r) == r >= 55296 /\ r <= 57343

isUnassigned(r) == r >= 262144 /\ r <= 983039

isForbidden(r) ==
    isControl(r) \/ isSurrogate(r) \/ r > 1114111 \/ isUnassigned(r)

DQuote == 34
Hash == 35
LParen == 40
RParen == 41
Star == 42
Slash == 47
Semicolon == 59
Equals == 61
Backslash == 92
LetterA == 97
LBrace == 123
RBrace == 125
CtrlA == 1
Substitute == 26
BOM == 65279
ReversedBOM == 65534
Space == 32
LineFeed == 10

reserved == {DQuote, Hash, Semicolon, LBrace, RBrace}

ExtCStyleComments == "c_style_comments"
ExtExpressionArguments == "expression_arguments"
ExtPunctuatorArguments == "punctuator_arguments"

\* Extensions is a map from names to strings; it is modelled by the set of
\* its keys, the one value that is read being that of punctuator_arguments.
Has(e, name) == name \in e

\* exts[ExtPunctuatorArguments], after the normalisation and the split of
\* getPunctuator: the literals "=" and "==", configured as "=\n=="
punctuatorList == << <<Equals>>, <<Equals, Equals>> >>

isReserved(r, e) ==
    r \in reserved \/ (Has(e, ExtExpressionArguments) /\ r = LParen)

errEOF == "EOF"
errForbidden == "illegal character"
errIncompleteEscape == "incomplete escape sequence"
errIllegalEscape == "illegal escape character"
errUnclosedQuoted == "unclosed quoted"
errUnterminatedComment == "unterminated multi-line comment"
errIncompleteExpression == "incomplete expression"

reading(st) == st.pos < Len(st.src)

\* a mutant of current: a forbidden scalar is returned like any other
currentUnchecked(st) ==
    IF st.pos >= Len(st.src)
    THEN [c |-> 0, err |-> errEOF]
    ELSE [c |-> st.src[st.pos + 1], err |-> ""]

current(st) ==
    IF st.pos >= Len(st.src)
    THEN [c |-> 0, err |-> errEOF]
    ELSE IF isForbidden(st.src[st.pos + 1])
         THEN [c |-> 0, err |-> errForbidden]
         ELSE [c |-> st.src[st.pos + 1], err |-> ""]

increment(st, n) == [st EXCEPT !.pos = st.pos + n]

next(st, n) == IF st.pos + n < Len(st.src) THEN st.src[st.pos + n + 1] ELSE 0

\* s.src[from:to], 0-based and half open
Slice(sq, from, to) == SubSeq(sq, from + 1, to)

lexToken(type, content, og) == [Type |-> type, Content |-> content, Og |-> og]

argumentOk(r, e) == ~isWhitespace(r) /\ ~isLineTerminator(r) /\ ~isReserved(r, e)

tripleQuotedArgumentOk(r) == r # DQuote

\* The results of checkEscape, with the stream as it leaves it.
Escape(r, escaped, err, st) == [r |-> r, escaped |-> escaped, err |-> err, s |-> st]

\* a mutant of checkEscape: every level is treated as level 1
checkEscapeAsQuoted(st, c, quoted) ==
    IF c # Backslash
    THEN Escape(c, FALSE, "", st)
    ELSE LET s1 == increment(st, 1)
             cur == current(s1)
         IN  IF cur.err # ""
             THEN IF cur.err = errForbidden
                  THEN Escape(0, FALSE, errIllegalEscape, s1)
                  ELSE Escape(0, FALSE, errIncompleteEscape, s1)
             ELSE IF isWhitespace(cur.c)
                  THEN Escape(0, FALSE, errIllegalEscape, s1)
                  ELSE IF isLineTerminator(cur.c)
                       THEN Escape(0, TRUE, "", s1)
                       ELSE Escape(cur.c, TRUE, "", s1)

checkEscape(st, c, quoted) ==
    IF c # Backslash
    THEN Escape(c, FALSE, "", st)
    ELSE LET s1 == increment(st, 1)
             cur == current(s1)
         IN  IF cur.err # ""
             THEN IF cur.err = errForbidden \/ quoted = 0
                  THEN Escape(0, FALSE, errIllegalEscape, s1)
                  ELSE Escape(0, FALSE, errIncompleteEscape, s1)
             ELSE IF isWhitespace(cur.c) \/ isLineTerminator(cur.c)
                  THEN IF quoted = 3
                       THEN IF isLineTerminator(cur.c)
                            THEN Escape(0, FALSE, errIncompleteEscape, s1)
                            ELSE Escape(0, FALSE, errIllegalEscape, s1)
                       ELSE IF quoted = 0 \/ (quoted = 1 /\ ~isLineTerminator(cur.c))
                            THEN Escape(0, FALSE, errIllegalEscape, s1)
                            ELSE Escape(0, TRUE, "", s1)
                  ELSE Escape(cur.c, TRUE, "", s1)

RECURSIVE insertByLength(_, _)
\* p put into the sequence sorted, after the literals that are not shorter
insertByLength(sorted, p) ==
    IF sorted = <<>>
    THEN <<p>>
    ELSE IF Len(Head(sorted)) >= Len(p)
         THEN <<Head(sorted)>> \o insertByLength(Tail(sorted), p)
         ELSE <<p>> \o sorted

\* a mutant of sortByLengthDescending: the literals stay in the configured
\* order
configuredOrder(puncts) == puncts

RECURSIVE sortByLengthDescending(_)
\* slices.SortFunc(puncts, by rune length descending)
sortByLengthDescending(puncts) ==
    IF puncts = <<>>
    THEN <<>>
    ELSE insertByLength(sortByLengthDescending(SubSeq(puncts, 1, Len(puncts) - 1)),
                        puncts[Len(puncts)])

RECURSIVE firstMatch(_, _, _)
\* for _, p := range puncts { if l = len(p); l <= len(rest) && rest[:l] == p { return } }; return 0
firstMatch(puncts, k, rest) ==
    IF k > Len(puncts)
    THEN 0
    ELSE LET l == Len(puncts[k])
         IN  IF l <= Len(rest) /\ SubSeq(rest, 1, l) = puncts[k]
             THEN l
             ELSE firstMatch(puncts, k + 1, rest)

getPunctuator(st, puncts) ==
    firstMatch(sortByLengthDescending(puncts), 1, Slice(st.src, st.pos, Len(st.src)))

\* The results of the argument lexers, with the stream as they leave it.
Lexed(arg, ogarg, err, st) == [arg |-> arg, ogarg |-> ogarg, err |-> err, s |-> st]

\* One evaluation of the condition and the body of the loop of an argument
\* lexer: the function returns (done) or the loop goes round again, with the
\* stream, the count of pending quotes and the two results as they then are.
Iter(done, err, st, endsMatched, arg, ogarg) ==
    [done |-> done, err |-> err, s |-> st, endsMatched |-> endsMatched,
     arg |-> arg, ogarg |-> ogarg]

\* for s.reading() { ... }; return
lex0qBody(st, e, arg, ogarg) ==
    IF reading(st)
    THEN LET cur == current(st)
         IN  IF cur.err # ""
             THEN Iter(TRUE, cur.err, st, 0, <<>>, <<>>)
             ELSE IF \/ ~argumentOk(cur.c, e)
                     \/ /\ Has(e, ExtPunctuatorArguments)
                        /\ getPunctuator(st, punctuatorList) # 0
                  THEN Iter(TRUE, "", st, 0, arg, ogarg)
                  ELSE LET esc == checkEscape(st, cur.c, 0)
                       IN  IF esc.err # ""
                           THEN Iter(TRUE, esc.err, esc.s, 0, <<>>, <<>>)
                           ELSE Iter(FALSE, "", increment(esc.s, 1), 0,
                                    Append(arg, esc.r),
                                    Append(IF esc.escaped THEN Append(ogarg, Backslash)
                                           ELSE ogarg, esc.r))
    ELSE Iter(TRUE, "", st, 0, arg, ogarg)

RECURSIVE lex0qLoop(_, _, _, _)
lex0qLoop(st, e, arg, ogarg) ==
    LET it == lex0qBody(st, e, arg, ogarg)
    IN  IF it.done
        THEN Lexed(it.arg, it.ogarg, it.err, it.s)
        ELSE lex0qLoop(it.s, e, it.arg, it.ogarg)

lex0qArgument(st, e) == lex0qLoop(st, e, <<>>, <<>>)

\* a mutant of quotedArgumentOk: a line terminator is content
quotedArgumentOkOverLines(r) == r # DQuote

quotedArgumentOk(r) == ~isLineTerminator(r) /\ r # DQuote

\* for ; s.reading(); s.increment(1) { ... }; return nil, nil, errUnclosedQuoted
lex1qBody(st, arg, ogarg) ==
    IF reading(st)
    THEN LET cur == current(st)
         IN  IF cur.err = errForbidden
             THEN Iter(TRUE, errForbidden, st, 0, <<>>, <<>>)
             ELSE IF ~quotedArgumentOk(cur.c)
                  THEN IF cur.c # DQuote
                       THEN Iter(TRUE, errUnclosedQuoted, st, 0, <<>>, <<>>)
                       ELSE Iter(TRUE, "", increment(st, 1), 0, arg, ogarg)
                  ELSE LET esc == checkEscape(st, cur.c, 1)
                           og1 == IF esc.escaped THEN Append(ogarg, Backslash) ELSE ogarg
                       IN  IF esc.err # ""
                           THEN Iter(TRUE, esc.err, esc.s, 0, <<>>, <<>>)
                           ELSE IF esc.r = 0
                                THEN \* escaped line terminator
                                     Iter(FALSE, "", increment(esc.s, 1), 0, arg,
                                          Append(og1, current(esc.s).c))
                                ELSE Iter(FALSE, "", increment(esc.s, 1), 0,
                                          Append(arg, esc.r), Append(og1, esc.r))
    ELSE Iter(TRUE, errUnclosedQuoted, st, 0, <<>>, <<>>)

RECURSIVE lex1qLoop(_, _, _)
lex1qLoop(st, arg, ogarg) ==
    LET it == lex1qBody(st, arg, ogarg)
    IN  IF it.done
        THEN Lexed(it.arg, it.ogarg, it.err, it.s)
        ELSE lex1qLoop(it.s, it.arg, it.ogarg)

lex1qArgument(st) == lex1qLoop(st, <<>>, <<>>)

\* a mutant of pendingQuotes: the quotes of a run that did not close the
\* argument are dropped
pendingQuotesDropped(endsMatched) == <<>>

\* slices.Repeat([]rune{'"'}, endsMatched)
pendingQuotes(endsMatched) == [k \in 1..endsMatched |-> DQuote]

\* for endsMatched := 0; s.reading(); { ... }; return nil, nil, errUnclosedQuoted
lex3qBody(st, endsMatched, arg, ogarg) ==
    IF reading(st)
    THEN LET cur == current(st)
         IN  IF cur.err = errForbidden
             THEN Iter(TRUE, errForbidden, st, endsMatched, <<>>, <<>>)
             ELSE IF ~tripleQuotedArgumentOk(cur.c)
                  THEN LET og1 == Append(ogarg, cur.c)
                       IN  IF endsMatched = 2
                           THEN Iter(TRUE, "", increment(st, 1), endsMatched, arg,
                                     SubSeq(og1, 1, Len(og1) - 3))
                           ELSE Iter(FALSE, "", increment(st, 1), endsMatched + 1,
                                     arg, og1)
                  ELSE IF endsMatched > 0
                       THEN Iter(FALSE, "", st, 0,
                                 arg \o pendingQuotes(endsMatched), ogarg)
                       ELSE LET esc == checkEscape(st, cur.c, 3)
                            IN  IF esc.err # ""
                                THEN Iter(TRUE, esc.err, esc.s, 0, <<>>, <<>>)
                                ELSE Iter(FALSE, "", increment(esc.s, 1), 0,
                                         Append(arg, esc.r),
                                         Append(IF esc.escaped
                                                THEN Append(ogarg, Backslash)
                                                ELSE ogarg, esc.r))
    ELSE Iter(TRUE, errUnclosedQuoted, st, endsMatched, <<>>, <<>>)

RECURSIVE lex3qLoop(_, _, _, _)
lex3qLoop(st, endsMatched, arg, ogarg) ==
    LET it == lex3qBody(st, endsMatched, arg, ogarg)
    IN  IF it.done
        THEN Lexed(it.arg, it.ogarg, it.err, it.s)
        ELSE lex3qLoop(it.s, it.endsMatched, it.arg, it.ogarg)

lex3qArgument(st) == lex3qLoop(st, 0, <<>>, <<>>)

\* The outcome of a scanning loop of lex: the stream as the loop leaves it
\* and the error it returns with, if any.
Scanned(st, err) == [s |-> st, err |-> err]

RECURSIVE lineCommentLoop(_)
\* for { s.increment(1); forbidden: return; end of input or line terminator: break }
lineCommentLoop(st) ==
    LET s1 == increment(st, 1)
        cur == current(s1)
    IN  IF cur.err = errForbidden
        THEN Scanned(s1, errForbidden)
        ELSE IF cur.err # "" \/ isLineTerminator(cur.c)
             THEN Scanned(s1, "")
             ELSE lineCommentLoop(s1)

RECURSIVE blockCommentLoop(_)
blockCommentLoop(st) ==
    LET s1 == increment(st, 1)
        cur == current(s1)
    IN  IF cur.err = errForbidden
        THEN Scanned(s1, errForbidden)
        ELSE IF cur.err # ""
             THEN Scanned(s1, errUnterminatedComment)
             ELSE IF cur.c = Star /\ next(s1, 1) = Slash
                  THEN Scanned(s1, "")
                  ELSE blockCommentLoop(s1)

RECURSIVE expressionLoop(_, _)
expressionLoop(st, depth) ==
    LET s1 == increment(st, 1)
        cur == current(s1)
    IN  IF cur.err = errForbidden
        THEN Scanned(s1, errForbidden)
        ELSE IF cur.err # "" \/ isLineTerminator(cur.c)
             THEN Scanned(s1, errIncompleteExpression)
             ELSE IF cur.c = LParen
                  THEN expressionLoop(s1, depth + 1)
                  ELSE IF cur.c = RParen
                       THEN IF depth = 0
                            THEN Scanned(s1, "")
                            ELSE expressionLoop(s1, depth - 1)
                       ELSE expressionLoop(s1, depth)

----------------------------------------------------------------------------
(* lex *)

\* The scalar values the inputs of lex are drawn from: one of every class
\* the classifier and the dispatch of lex tell apart, those that only an
\* extension gives a meaning being drawn when it is active.
LexAlphabet(e) ==
    {LineFeed, Space, DQuote, Hash, Semicolon, Backslash, LetterA, LBrace,
     RBrace, CtrlA}
        \cup (IF Has(e, ExtCStyleComments) THEN {Slash, Star} ELSE {})
        \cup (IF Has(e, ExtExpressionArguments) THEN {LParen, RParen} ELSE {})
        \cup (IF Has(e, ExtPunctuatorArguments) THEN {Equals} ELSE {})

\* The source texts: a body, after a byte-order mark or not, before a
\* substitute character or not. They are valid UTF-8, so lex never returns
\* "malformed UTF-8" on them.
Sources(e) ==
    {prefix \o body \o suffix :
        prefix \in {<<>>, <<BOM>>, <<ReversedBOM>>},
        body \in UNION {[1..n -> LexAlphabet(e)] : n \in 0..MaxSrc},
        suffix \in {<<>>, <<Substitute>>}}

\* parse is not running
ParseIdle ==
    /\ tokens = <<>>
    /\ stack = <<>>
    /\ result = [status |-> "idle", err |-> "", p |-> <<>>]

LexInit ==
    /\ exts \in SUBSET {ExtCStyleComments, ExtExpressionArguments, ExtPunctuatorArguments}
    /\ source \in Sources(exts)
    /\ stream = [src |-> <<>>, pos |-> 0]
    /\ lexTs = <<>>
    /\ deferred = FALSE
    /\ lexed = [status |-> "start", err |-> "", ts |-> <<>>]
    /\ ParseIdle
    /\ CallIdle

HasPrefix(sq, r) == Len(sq) >= 1 /\ sq[1] = r
HasSuffix(sq, r) == Len(sq) >= 1 /\ sq[Len(sq)] = r

\* The statements of lex before its loop: the byte-order mark is removed
\* and recorded, the removal of ^Z defers the append of its token.
LexStart ==
    /\ lexed.status = "start"
    /\ LET marked == HasPrefix(source, BOM) \/ HasPrefix(source, ReversedBOM)
           src1 == IF marked THEN Tail(source) ELSE source
           src2 == IF HasSuffix(src1, Substitute)
                   THEN SubSeq(src1, 1, Len(src1) - 1)
                   ELSE src1
       IN  /\ lexTs' = IF marked
                       THEN <<lexToken("tokUnicode", <<source[1]>>, <<>>)>>
                       ELSE <<>>
           /\ deferred' = HasSuffix(src1, Substitute)
           /\ stream' = [src |-> src2, pos |-> 0]
    /\ lexed' = [lexed EXCEPT !.status = "running"]
    /\ UNCHANGED <<source, exts, pvars, cvars>>

\* A return of lex with ts and err set to tsv and err: the deferred function,
\* if registered, appends the ^Z token to the named result ts.
lexReturn(tsv, err) ==
    [status |-> IF err = "" THEN "ok" ELSE "error",
     err |-> err,
     ts |-> IF deferred
            THEN Append(tsv, lexToken("tokUnicode", <<Substitute>>, <<>>))
            ELSE tsv]

\* the case of the switch that the scalar at the cursor selects
lexCase(st, e) ==
    LET c == current(st).c
    IN  IF isLineTerminator(c) THEN "newline"
        ELSE IF isWhitespace(c) THEN "whitespace"
        ELSE IF Has(e, ExtCStyleComments) /\ c = Slash /\ next(st, 1) = Slash
             THEN "lineComment"
        ELSE IF c = Hash THEN "hashComment"
        ELSE IF Has(e, ExtCStyleComments) /\ c = Slash /\ next(st, 1) = Star
             THEN "blockComment"
        ELSE IF c = Semicolon THEN "semicolon"
        ELSE IF c = LBrace THEN "openBrace"
        ELSE IF c = RBrace THEN "closeBrace"
        ELSE IF c = Backslash /\ isLineTerminator(next(st, 1))
             THEN "lineContinuation"
        ELSE IF Has(e, ExtExpressionArguments) /\ c = LParen THEN "expression"
        ELSE IF /\ Has(e, ExtPunctuatorArguments)
                /\ getPunctuator(st, punctuatorList) # 0
             THEN "punctuator"
        ELSE IF c = DQuote /\ next(st, 1) = DQuote /\ next(st, 2) = DQuote
             THEN "tripleQuoted"
        ELSE IF c = DQuote THEN "quoted"
        ELSE "unquoted"

\* an iteration of the loop of lex that gets past the check of current()
AtCase(name) ==
    /\ lexed.status = "running"
    /\ reading(stream)
    /\ current(stream).err = ""
    /\ lexCase(stream, exts) = name

\* the iteration ends with the stream at st and tok appended to ts
Emit(st, tok) ==
    /\ stream' = st
    /\ lexTs' = Append(lexTs, tok)
    /\ UNCHANGED <<source, exts, deferred, lexed, pvars, cvars>>

\* return nil, err with the stream at st
Abort(st, err) ==
    /\ stream' = st
    /\ lexed' = lexReturn(<<>>, err)
    /\ lexTs' = lexed'.ts
    /\ UNCHANGED <<source, exts, deferred, pvars, cvars>>

op == stream.pos

LexNewline ==
    /\ AtCase("newline")
    /\ Emit(increment(stream, 1),
            lexToken("tokNewline", <<current(stream).c>>, <<>>))

LexWhitespace ==
    /\ AtCase("whitespace")
    /\ Emit(increment(stream, 1),
            lexToken("tokWhitespace", <<current(stream).c>>, <<>>))

LexLineComment ==
    /\ AtCase("lineComment")
    /\ LET r == lineCommentLoop(increment(stream, 1))
           content == Slice(stream.src, op + 2, r.s.pos)
       IN  IF r.err # ""
           THEN Abort(r.s, r.err)
           ELSE Emit(r.s, lexToken("tokComment", content, <<Slash, Slash>> \o content))

LexHashComment ==
    /\ AtCase("hashComment")
    /\ LET r == lineCommentLoop(stream)
           content == Slice(stream.src, op + 1, r.s.pos)
       IN  IF r.err # ""
           THEN Abort(r.s, r.err)
           ELSE Emit(r.s, lexToken("tokComment", content, <<Hash>> \o content))

LexBlockComment ==
    /\ AtCase("blockComment")
    /\ LET r == blockCommentLoop(increment(stream, 1))
           content == Slice(stream.src, op + 2, r.s.pos)
       IN  IF r.err # ""
           THEN Abort(r.s, r.err)
           ELSE Emit(increment(r.s, 2),
                     lexToken("tokComment", content,
                              <<Slash, Star>> \o content \o <<Star, Slash>>))

LexSemicolon ==
    /\ AtCase("semicolon")
    /\ Emit(increment(stream, 1), lexToken("tokSemicolon", <<>>, <<>>))

LexOpenBrace ==
    /\ AtCase("openBrace")
    /\ Emit(increment(stream, 1), lexToken("tokOpenBrace", <<>>, <<>>))

LexCloseBrace ==
    /\ AtCase("closeBrace")
    /\ Emit(increment(stream, 1), lexToken("tokCloseBrace", <<>>, <<>>))

\* a mutant of LexLineContinuation: the token is appended and the cursor
\* stays where it is
LexLineContinuationInPlace ==
    /\ AtCase("lineContinuation")
    /\ Emit(stream, lexToken("tokLineContinuation", <<>>, <<>>))

LexLineContinuation ==
    /\ AtCase("lineContinuation")
    /\ Emit(increment(stream, 2), lexToken("tokLineContinuation", <<>>, <<>>))

LexExpression ==
    /\ AtCase("expression")
    /\ LET r == expressionLoop(stream, 0)
           content == Slice(stream.src, op + 1, r.s.pos)
       IN  IF r.err # ""
           THEN Abort(r.s, r.err)
           ELSE Emit(increment(r.s, 1),
                     lexToken("tok0qArgument", content,
                              <<LParen>> \o content \o <<RParen>>))

LexPunctuator ==
    /\ AtCase("punctuator")
    /\ LET s1 == increment(stream, getPunctuator(stream, punctuatorList))
           content == Slice(stream.src, op, s1.pos)
       IN  Emit(s1, lexToken("tok0qArgument", content, content))

Lex3qArgument ==
    /\ AtCase("tripleQuoted")
    /\ LET r == lex3qArgument(increment(stream, 3))
       IN  IF r.err # ""
           THEN Abort(r.s, r.err)
           ELSE Emit(r.s, lexToken("tok3qArgument", r.arg, r.ogarg))

Lex1qArgument ==
    /\ AtCase("quoted")
    /\ LET r == lex1qArgument(increment(stream, 1))
       IN  IF r.err # ""
           THEN Abort(r.s, r.err)
           ELSE Emit(r.s, lexToken("tok1qArgument", r.arg, r.ogarg))

Lex0qArgument ==
    /\ AtCase("unquoted")
    /\ LET r == lex0qArgument(stream, exts)
       IN  IF r.err # ""
           THEN Abort(r.s, r.err)
           ELSE Emit(r.s, lexToken("tok0qArgument", r.arg, r.ogarg))

\* c, err := s.current(); if err != nil { break }, and the return after the
\* loop: err, the named result, is still nil
LexBreak ==
    /\ lexed.status = "running"
    /\ reading(stream)
    /\ current(stream).err # ""
    /\ lexed' = lexReturn(lexTs, "")
    /\ lexTs' = lexed'.ts
    /\ UNCHANGED <<source, exts, stream, deferred, pvars, cvars>>

\* the loop condition s.reading() fails: return
LexReturn ==
    /\ lexed.status = "running"
    /\ ~reading(stream)
    /\ lexed' = lexReturn(lexTs, "")
    /\ lexTs' = lexed'.ts
    /\ UNCHANGED <<source, exts, stream, deferred, pvars, cvars>>

LexNext ==
    \/ LexStart
    \/ LexNewline
    \/ LexWhitespace
    \/ LexLineComment
    \/ LexHashComment
    \/ LexBlockComment
    \/ LexSemicolon
    \/ LexOpenBrace
    \/ LexCloseBrace
    \/ LexLineContinuation
    \/ LexExpression
    \/ LexPunctuator
    \/ Lex3qArgument
    \/ Lex1qArgument
    \/ Lex0qArgument
    \/ LexBreak
    \/ LexReturn

SpecLex == LexInit /\ [][LexNext]_vars

----------------------------------------------------------------------------
(* lex, then parse on its tokens *)

MaxBody == 3

\* The scalar values the body of a triple-quoted argument is drawn from.
QuotedAlphabet == {DQuote, Backslash, LetterA, LineFeed, Space, CtrlA}

\* Source texts that open a triple-quoted argument: the three quotes, a body
\* and, or not, three more quotes.
Sources3q ==
    {<<DQuote, DQuote, DQuote>> \o body \o closing :
        body \in UNION {[1..n -> QuotedAlphabet] : n \in 0..MaxBody},
        closing \in {<<>>, <<DQuote, DQuote, DQuote>>}}

MaxText == 3

\* The source texts of at most MaxText scalars, a leading byte-order mark and
\* a trailing substitute character counted.
Texts(e) ==
    UNION {{prefix \o body \o suffix :
                body \in UNION {[1..n -> LexAlphabet(e)] :
                                  n \in 0..(MaxText - Len(prefix) - Len(suffix))}} :
           prefix \in {<<>>, <<BOM>>, <<ReversedBOM>>},
           suffix \in {<<>>, <<Substitute>>}}

PipelineInit ==
    /\ exts \in SUBSET {ExtCStyleComments, ExtExpressionArguments, ExtPunctuatorArguments}
    /\ source \in Texts(exts) \cup Sources3q
    /\ stream = [src |-> <<>>, pos |-> 0]
    /\ lexTs = <<>>
    /\ deferred = FALSE
    /\ lexed = [status |-> "start", err |-> "", ts |-> <<>>]
    /\ ParseIdle
    /\ CallIdle

\* The token type of parse for a token type of lex: the three argument
\* types are the one argument type of parse.
parseType(type) ==
    IF type \in {"tok0qArgument", "tok1qArgument", "tok3qArgument"} THEN "TokArgument"
    ELSE IF type = "tokUnicode" THEN "TokUnicode"
    ELSE IF type = "tokNewline" THEN "TokNewline"
    ELSE IF type = "tokLineContinuation" THEN "TokLineContinuation"
    ELSE IF type = "tokWhitespace" THEN "TokWhitespace"
    ELSE IF type = "tokComment" THEN "TokComment"
    ELSE IF type = "tokSemicolon" THEN "TokSemicolon"
    ELSE IF type = "tokOpenBrace" THEN "TokOpenBrace"
    ELSE "TokCloseBrace"

parseTokens(tsv) == [k \in 1..Len(tsv) |-> Token(parseType(tsv[k].Type), tsv[k].Content)]

\* ts, err := lex(text, extensions); if err != nil { panic(err) }; parse(ts)
LexToParse ==
    /\ lexed.status = "ok"
    /\ result.status = "idle"
    /\ tokens' = parseTokens(lexed.ts)
    /\ stack' = <<Frame(tokens', 0, EmptyDirective, <<>>)>>
    /\ result' = Running
    /\ UNCHANGED <<lvars, cvars>>

PipelineNext ==
    \/ LexNext
    \/ LexToParse
    \/ ParseNext

SpecPipeline == PipelineInit /\ [][PipelineNext]_vars

\* lex alone on the same source texts
SpecTexts == PipelineInit /\ [][LexNext]_vars

----------------------------------------------------------------------------
(* checkEscape and the argument lexers, each called alone: the loop of an    *)
(* argument lexer goes round once per step.                                  *)

\* the stream of a call: src, the cursor after the first n scalars
Stream(src, n) == [src |-> src, pos |-> n]

\* The scalars after an opening quote, or after a backslash.
Bodies == UNION {[1..n -> QuotedAlphabet] : n \in 0..MaxBody}

\* checkEscape(s, c, quoted) is called with c the scalar at the cursor, which
\* the caller has found to be allowed in its kind of argument.
EscapeCalls ==
    {Call("checkEscape", quoted, {}, Stream(body, n)) :
        quoted \in {0, 1, 3},
        body \in Bodies \ {<<>>},
        n \in 0..(MaxBody - 1)}

\* lex calls lex0qArgument at a scalar that selects none of the other cases.
Calls0q(e) ==
    {Call("lex0qArgument", 0, e, Stream(body, 0)) :
        body \in UNION {[1..n -> LexAlphabet(e)] : n \in 1..MaxBody}}

\* lex calls lex1qArgument after s.increment(1) over the opening quote.
Calls1q == {Call("lex1qArgument", 1, {}, Stream(<<DQuote>> \o body, 1)) : body \in Bodies}

\* lex calls lex3qArgument after s.increment(3) over the opening quotes.
Calls3q == {Call("lex3qArgument", 3, {}, Stream(src, 3)) : src \in Sources3q}

CallInit ==
    /\ \/ call \in EscapeCalls \cup Calls1q \cup Calls3q
       \/ \E e \in SUBSET {ExtCStyleComments, ExtExpressionArguments,
                            ExtPunctuatorArguments} : call \in Calls0q(e)
    /\ call.fn = "checkEscape" =>
            /\ reading(call.s)
            /\ current(call.s).err = ""
            /\ CASE call.quoted = 0 -> argumentOk(current(call.s).c, {})
                 [] call.quoted = 1 -> quotedArgumentOk(current(call.s).c)
                 [] call.quoted = 3 -> tripleQuotedArgumentOk(current(call.s).c)
    /\ call.fn = "lex0qArgument" =>
            /\ current(call.s).err = ""
            /\ lexCase(call.s, call.e) = "unquoted"
    /\ ParseIdle
    /\ LexIdle

InCall(fn) == call.fn = fn /\ call.status = "running"

\* the call goes round its loop again, or returns
Iterated(it) ==
    [call EXCEPT !.s = it.s, !.endsMatched = it.endsMatched,
                 !.arg = it.arg, !.ogarg = it.ogarg, !.err = it.err,
                 !.status = IF it.done THEN "returned" ELSE "running"]

CallCheckEscape ==
    /\ InCall("checkEscape")
    /\ LET esc == checkEscape(call.s, current(call.s).c, call.quoted)
       IN  call' = [call EXCEPT !.s = esc.s, !.r = esc.r, !.escaped = esc.escaped,
                                !.err = esc.err, !.status = "returned"]
    /\ UNCHANGED <<pvars, lvars>>

CallLex0qArgument ==
    /\ InCall("lex0qArgument")
    /\ call' = Iterated(lex0qBody(call.s, call.e, call.arg, call.ogarg))
    /\ UNCHANGED <<pvars, lvars>>

CallLex1qArgument ==
    /\ InCall("lex1qArgument")
    /\ call' = Iterated(lex1qBody(call.s, call.arg, call.ogarg))
    /\ UNCHANGED <<pvars, lvars>>

CallLex3qArgument ==
    /\ InCall("lex3qArgument")
    /\ call' = Iterated(lex3qBody(call.s, call.endsMatched, call.arg, call.ogarg))
    /\ UNCHANGED <<pvars, lvars>>

CallNext ==
    \/ CallCheckEscape
    \/ CallLex0qArgument
    \/ CallLex1qArgument
    \/ CallLex3qArgument

SpecCalls == CallInit /\ [][CallNext]_vars

\* lex on the texts, and the calls
LexingInit == PipelineInit \/ CallInit
LexingNext == LexNext \/ CallNext
SpecLexing == LexingInit /\ [][LexingNext]_vars

----------------------------------------------------------------------------
(* parse on a directive followed by two blocks *)

MaxInner == 2

\* { body }
Block(body) ==
    <<Token("TokOpenBrace", "")>> \o body \o <<Token("TokCloseBrace", "")>>

\* the tokens of a block: arguments and newlines
InnerSeqs ==
    UNION {[1..n -> {Token("TokArgument", "a"), Token("TokArgument", "b"),
                     Token("TokNewline", "")}] : n \in 0..MaxInner}

\* An argument, a block, at most one token of any kind, and a block.
BlockSeqs ==
    {<<Token("TokArgument", "a")>> \o Block(first) \o between \o Block(second) :
        first \in InnerSeqs,
        between \in UNION {[1..n -> TokenAlphabet] : n \in 0..1},
        second \in InnerSeqs}

BlockInit ==
    /\ tokens \in BlockSeqs
    /\ stack = <<Frame(tokens, 0, EmptyDirective, <<>>)>>
    /\ result = Running
    /\ LexIdle
    /\ CallIdle

SpecBlocks == BlockInit /\ [][ParseNext]_vars

Init == ParseInit
Next == ParseNext
Spec == Init /\ [][Next]_vars

----------------------------------------------------------------------------
(* Properties of parse *)

IsOk == result.status = "ok"
TokenTypeOccurs(type) == \E k \in 1..Len(tokens) : tokens[k].Type = type

RECURSIVE NonEmptyForest(_)
\* every directive of the forest p, at every depth, has at least one argument
NonEmptyForest(p) ==
    \A k \in 1..Len(p) :
        Len(p[k].Arguments) >= 1 /\ NonEmptyForest(p[k].Subdirectives)

\* C1: every directive parse has committed, in any scope and at any depth,
\* and every directive of a forest it returns, has at least one argument: a
\* directive under construction with zero arguments is never committed.
C1_NonEmptyDirectives ==
    /\ \A k \in 1..Len(stack) : NonEmptyForest(stack[k].p)
    /\ IsOk => NonEmptyForest(result.p)

\* parse has succeeded on an input with a nested directive and a semicolon,
\* the end of input finding nothing under construction
C1_Witness ==
    /\ IsOk
    /\ TokenTypeOccurs("TokSemicolon")
    /\ tokens[Len(tokens)].Type = "TokCloseBrace"
    /\ \E k \in 1..Len(result.p) : Len(result.p[k].Subdirectives) >= 1

IsDelimiter(t) == t.Type \in {"TokNewline", "TokSemicolon"}
IsRunToken(t) == t.Type = "TokArgument" \/ IsDelimiter(t)
FirstDelimiter(s) ==
    IF \E k \in 1..Len(s) : IsDelimiter(s[k])
    THEN CHOOSE k \in 1..Len(s) :
            IsDelimiter(s[k]) /\ \A j \in 1..(k - 1) : ~IsDelimiter(s[j])
    ELSE Len(s) + 1

RECURSIVE Runs(_)
\* the maximal runs of argument tokens of s, one directive per non-empty run
Runs(s) ==
    IF s = <<>>
    THEN <<>>
    ELSE LET k == FirstDelimiter(s)
             run == [j \in 1..(k - 1) |-> s[j].Content]
             rest == SubSeq(s, k + 1, Len(s))
         IN  (IF run = <<>> THEN <<>> ELSE <<Directive(run, <<>>)>>) \o Runs(rest)

\* C4: on a token sequence without braces and line continuations on which
\* parse succeeds, the output is one directive per non-empty maximal run of
\* argument tokens between newlines, semicolons and the end of input, in
\* order, with the run's contents as arguments and no subdirectives.
C4_RunsOfArguments ==
    ( /\ IsOk
      /\ ~TokenTypeOccurs("TokOpenBrace")
      /\ ~TokenTypeOccurs("TokCloseBrace")
      /\ ~TokenTypeOccurs("TokLineContinuation") )
    => result.p = Runs(SelectSeq(tokens, IsRunToken))

\* two directives, one of them with two different arguments
C4_Witness ==
    /\ IsOk
    /\ ~TokenTypeOccurs("TokOpenBrace")
    /\ ~TokenTypeOccurs("TokCloseBrace")
    /\ ~TokenTypeOccurs("TokLineContinuation")
    /\ Len(result.p) = 2
    /\ \E k \in 1..2 : result.p[k].Arguments \in {<<"a", "b">>, <<"b", "a">>}

\* an input without arguments, a comment only, gives the empty sequence
C4_CommentOnly ==
    (IsOk /\ tokens = <<Token("TokComment", "")>>) => result.p = <<>>

NoToken == Token("none", "")
RECURSIVE NearestSignificant(_, _)
\* the nearest token before index i of ts that is neither whitespace nor
\* comment, at any index down to 0
NearestSignificant(ts, i) ==
    IF i <= 0
    THEN NoToken
    ELSE IF ts[i].Type \notin {"TokWhitespace", "TokComment"}
         THEN ts[i]
         ELSE NearestSignificant(ts, i - 1)

\* C5: a semicolon parse reaches whose nearest preceding token that is neither
\* whitespace nor comment is a semicolon, a newline or a line continuation, at
\* any index of the scope, makes parse fail with UnexpectedSemicolon; any other
\* semicolon commits the directive under construction if it has an argument.
C5_SemicolonRule ==
    [][AtToken("TokSemicolon") =>
        IF NearestSignificant(top.ts, top.i).Type \in
              {"TokSemicolon", "TokNewline", "TokLineContinuation"}
        THEN result' = Failed(UnexpectedSemicolon)
        ELSE /\ result' = Running
             /\ stack' = SetTop(Advance(
                    IF Len(top.current.Arguments) >= 1
                    THEN [top EXCEPT !.p = Append(top.p, top.current),
                                     !.current = EmptyDirective]
                    ELSE top))]_vars

\* C6: an open brace that is the first or the last token of its scope, or
\* whose nearest preceding token that is neither whitespace nor comment is a
\* semicolon, makes parse fail with UnexpectedOpenBrace.
C6_OpenBraceRule ==
    [][( /\ AtToken("TokOpenBrace")
         /\ \/ top.i = 0
            \/ top.i = Len(top.ts) - 1
            \/ NearestSignificant(top.ts, top.i).Type = "TokSemicolon" )
        => result' = Failed(UnexpectedOpenBrace)]_vars

\* a recursive call of parse is about to return its children to the open
\* brace case of the calling scope
BlockParsed == AtEnd /\ Len(stack) > 1
Caller == stack[Len(stack) - 1]
Children == IF Len(top.current.Arguments) >= 1
            THEN Append(top.p, top.current)
            ELSE top.p

\* C7: the children of a block that parsed become the subdirectives of exactly
\* one directive of the current scope: of the directive under construction,
\* which is committed at once, if it has an argument; otherwise of the most
\* recently committed directive, and nothing new is committed.
C7_BlockAttachment ==
    [][BlockParsed =>
        /\ result' = Running
        /\ Len(stack') = Len(stack) - 1
        /\ LET after == stack'[Len(stack')]
               n == Len(Caller.p)
           IN  /\ after.current = EmptyDirective
               /\ after.i = Caller.i + 1
               /\ IF Len(Caller.current.Arguments) >= 1
                  THEN after.p = Append(Caller.p,
                           Directive(Caller.current.Arguments, Children))
                  ELSE /\ n >= 1
                       /\ Len(after.p) = n
                       /\ after.p[n] = Directive(Caller.p[n].Arguments, Children)
                       /\ \A k \in 1..(n - 1) : after.p[k] = Caller.p[k]]_vars

\* C8: a block that parsed, reached with nothing under construction and
\* nothing committed in its scope, makes parse return the error OrphanBlock.
C8_OrphanBlock ==
    [][( /\ BlockParsed
         /\ Caller.current.Arguments = <<>>
         /\ Len(Caller.p) = 0 )
        => result' = Failed("OrphanBlock")]_vars

\* C9: a close brace the loop of parse reaches, one that no scan for the end
\* of a block has consumed, makes parse fail with UnmatchedCloseBrace and
\* return no directives.
C9_UnmatchedCloseBrace ==
    [][AtToken("TokCloseBrace") =>
        /\ result'.status = "error"
        /\ result'.err = UnmatchedCloseBrace
        /\ result'.p = <<>>]_vars

\* parse has failed on a close brace that follows a complete block
C9_Witness ==
    /\ result = Failed(UnmatchedCloseBrace)
    /\ top.i > 0
    /\ \E k \in 1..top.i : top.ts[k].Type = "TokOpenBrace"

----------------------------------------------------------------------------
(* Properties of lex *)

RECURSIVE Reassemble(_)
\* the verbatim texts of the tokens in order, a marker token standing for
\* the scalar that was stripped
Reassemble(tsv) ==
    IF tsv = <<>>
    THEN <<>>
    ELSE (IF Head(tsv).Type = "tokUnicode" THEN Head(tsv).Content ELSE Head(tsv).Og)
             \o Reassemble(Tail(tsv))

\* C2: when lex succeeds, the verbatim texts (Og) of the returned tokens in
\* order, with the stripped byte-order mark and substitute character put back
\* at their ends, are the source text.
C2_RoundTrip == lexed.status = "ok" => Reassemble(lexed.ts) = source

\* C3: when the cursor of lex rests on a forbidden scalar at the start of an
\* iteration of its loop, lex returns the error "illegal character"; it does
\* not return success with that scalar and what follows it untokenized.
C3_IllegalCharacter ==
    [][( /\ lexed.status = "running"
         /\ reading(stream)
         /\ isForbidden(stream.src[stream.pos + 1]) )
        => (lexed'.status = "error" /\ lexed'.err = errForbidden)]_vars

\* C10: lex returns no tokens with an error, and parse returns no directives
\* with an error.
C10_NoPartialOutput ==
    /\ lexed.status = "error" => lexed.ts = <<>>
    /\ result.status = "error" => result.p = <<>>

----------------------------------------------------------------------------
(* Properties of lex followed by parse *)

RECURSIVE ForestArguments(_)
\* the arguments of the directives of the forest p, at every depth
ForestArguments(p) ==
    UNION {{p[k].Arguments[j] : j \in 1..Len(p[k].Arguments)}
               \cup ForestArguments(p[k].Subdirectives) : k \in 1..Len(p)}

NoForbidden(arg) == \A k \in 1..Len(arg) : ~isForbidden(arg[k])
IsArgumentToken(t) ==
    t.Type \in {"tok0qArgument", "tok1qArgument", "tok3qArgument"}
ArgumentTokens == {lexed.ts[k] : k \in {j \in 1..Len(lexed.ts) : IsArgumentToken(lexed.ts[j])}}

----------------------------------------------------------------------------
(* Properties of parse: blocks, line continuations, ignored tokens *)

CountType(ts, from, to, type) ==
    Cardinality({k \in from..to : ts[k].Type = type})

\* the positions after the open brace at position b of ts (positions from 1)
\* of a close brace at which the nesting depth, 1 after the open brace, is 0
ClosesAt(ts, b) ==
    {j \in (b + 1)..Len(ts) :
        /\ ts[j].Type = "TokCloseBrace"
        /\ 1 + CountType(ts, b + 1, j, "TokOpenBrace")
             - CountType(ts, b + 1, j, "TokCloseBrace") = 0}

FirstOf(S) == CHOOSE j \in S : \A k \in S : j <= k

\* C12: for an open brace that passes the validity check, the tokens parsed
\* recursively are those strictly between it and the first later close brace
\* at which the nesting depth returns to zero, the enclosing scope resumes
\* with the token after that close brace, and without such a close brace
\* parse fails with UnterminatedBlock.
C12_BlockSpan ==
    [][ /\ (AtToken("TokOpenBrace") /\ ~openBraceRejected(top.ts, top.i)) =>
             LET b == top.i + 1
                 closes == ClosesAt(top.ts, b)
             IN  IF closes = {}
                 THEN result' = Failed(UnterminatedBlock)
                 ELSE /\ result' = Running
                      /\ Len(stack') = Len(stack) + 1
                      /\ stack'[Len(stack')].ts = SubSeq(top.ts, b + 1, FirstOf(closes) - 1)
                      /\ stack'[Len(stack')].i = 0
                      /\ stack'[Len(stack)] = [top EXCEPT !.i = FirstOf(closes) - 1]
        /\ (BlockParsed /\ result'.status = "running") =>
             /\ Caller.ts[Caller.i + 1].Type = "TokCloseBrace"
             /\ stack'[Len(stack')].ts = Caller.ts
             /\ stack'[Len(stack')].i = Caller.i + 1 ]_vars

\* a recursive call has started on a span that holds a nested block, the
\* enclosing scope waiting at the close brace that ends the span
C12_Witness ==
    /\ result.status = "running"
    /\ Len(stack) = 2
    /\ top.i = 0
    /\ \E k \in 1..Len(top.ts) : top.ts[k].Type = "TokOpenBrace"
    /\ \E k \in 1..Len(top.ts) : top.ts[k].Type = "TokCloseBrace"
    /\ stack[1].ts[stack[1].i + 1].Type = "TokCloseBrace"

\* C13: a line continuation reached with no argument under construction
\* makes parse fail with UnexpectedLineContinuation; reached with an argument
\* under construction it changes nothing but the position: nothing is
\* committed and the directive under construction goes on.
C13_LineContinuation ==
    [][AtToken("TokLineContinuation") =>
        IF Len(top.current.Arguments) = 0
        THEN result' = Failed(UnexpectedLineContinuation)
        ELSE /\ result' = Running
             /\ stack' = SetTop([top EXCEPT !.i = top.i + 1])]_vars

\* parse has succeeded with the arguments around a line continuation in one
\* directive
C13_Witness ==
    /\ IsOk
    /\ Len(tokens) >= 3
    /\ tokens[1] = Token("TokArgument", "a")
    /\ tokens[2].Type = "TokLineContinuation"
    /\ tokens[3] = Token("TokArgument", "b")
    /\ Len(result.p) >= 1
    /\ result.p[1].Arguments = <<"a", "b">>

----------------------------------------------------------------------------
(* Properties of checkEscape and of the argument lexers *)

\* the scalar at the cursor of the call is a backslash
AtBackslash == reading(call.s) /\ call.s.src[call.s.pos + 1] = Backslash

\* the scalar after the backslash, 0 at the end of the input
Escapee == next(call.s, 1)

\* checkEscape has returned r, escaped and err
EscapeReturned(r, escaped, err) ==
    /\ call'.status = "returned"
    /\ call'.r = r
    /\ call'.escaped = escaped
    /\ call'.err = err

EscapeFailed(err) == call'.status = "returned" /\ call'.err = err

\* C14: the escape rule by quoting level. A backslash followed by whitespace
\* fails with IllegalEscape at levels 0, 1 and 3. A backslash followed by a
\* line terminator fails with IllegalEscape at level 0 and with
\* IncompleteEscape at level 3; at level 1 it is a line join, which adds no
\* scalar to the content of the quoted argument and keeps the backslash and
\* the terminator in its verbatim text. A backslash at the end of the input
\* fails with IllegalEscape at level 0 and with IncompleteEscape at levels 1
\* and 3. A backslash followed by any other scalar that is not forbidden
\* decodes to that scalar.
C14_EscapeRule ==
    [][/\ (InCall("checkEscape") /\ AtBackslash) =>
            IF call.s.pos + 1 >= Len(call.s.src)
            THEN EscapeFailed(IF call.quoted = 0 THEN errIllegalEscape
                              ELSE errIncompleteEscape)
            ELSE IF isForbidden(Escapee)
                 THEN TRUE
                 ELSE IF isWhitespace(Escapee)
                      THEN EscapeFailed(errIllegalEscape)
                      ELSE IF isLineTerminator(Escapee)
                           THEN CASE call.quoted = 0 -> EscapeFailed(errIllegalEscape)
                                  [] call.quoted = 3 -> EscapeFailed(errIncompleteEscape)
                                  [] call.quoted = 1 -> EscapeReturned(0, TRUE, "")
                           ELSE EscapeReturned(Escapee, TRUE, "")
       /\ (InCall("lex1qArgument") /\ AtBackslash /\ isLineTerminator(Escapee)) =>
            /\ call'.status = "running"
            /\ call'.s.pos = call.s.pos + 2
            /\ call'.arg = call.arg
            /\ call'.ogarg = call.ogarg \o <<Backslash, Escapee>>]_vars

\* a quoted argument made of a line join alone has been lexed
C14_Witness ==
    /\ call.fn = "lex1qArgument"
    /\ call.status = "returned"
    /\ call.err = ""
    /\ call.arg = <<>>
    /\ call.ogarg = <<Backslash, LineFeed>>

\* The scalars of the call that come after the opening quotes are those at
\* call.from + 1 .. Len(call.s.src).
RECURSIVE EscapedAt(_, _, _)
\* the scalar at k comes after a backslash that is not itself escaped
EscapedAt(src, from, k) ==
    /\ k > from + 1
    /\ src[k - 1] = Backslash
    /\ ~EscapedAt(src, from, k - 1)

\* the backslash at k starts an escape
Escaping(src, from, k) == src[k] = Backslash /\ ~EscapedAt(src, from, k)

\* the least member of a set of positions, n if there is none
Least(S, n) == IF S = {} THEN n ELSE CHOOSE k \in S : \A j \in S : k <= j

\* where a quoted argument ends: the first unescaped double quote or line
\* terminator, the end of the input if there is neither
End1q(src, from) ==
    Least({k \in (from + 1)..Len(src) :
              /\ ~EscapedAt(src, from, k)
              /\ src[k] = DQuote \/ isLineTerminator(src[k])},
          Len(src) + 1)

RECURSIVE Decoded(_, _, _, _)
\* the scalars at lo .. hi with each escape resolved: the backslash of an
\* escape is left out, and so is a line terminator it joins the lines over
Decoded(src, from, lo, hi) ==
    IF lo > hi
    THEN <<>>
    ELSE IF \/ Escaping(src, from, lo)
            \/ EscapedAt(src, from, lo) /\ isLineTerminator(src[lo])
         THEN Decoded(src, from, lo + 1, hi)
         ELSE <<src[lo]>> \o Decoded(src, from, lo + 1, hi)

\* a forbidden scalar stands before position end
ForbiddenBefore(src, from, end) ==
    \E k \in (from + 1)..(end - 1) : isForbidden(src[k])

\* an escape before position end fails by the escape rule of the level
EscapeFailsBefore(src, from, end, quoted) ==
    \E k \in (from + 1)..(end - 1) :
        /\ Escaping(src, from, k)
        /\ \/ k = Len(src)
           \/ isWhitespace(src[k + 1])
           \/ isLineTerminator(src[k + 1]) /\ quoted # 1

Returned1q == call.fn = "lex1qArgument" /\ call.status = "returned"

\* what the claim says of a call of lex1qArgument that has returned
Quoted1qOutcome ==
    LET src == call.s.src
        end == End1q(src, call.from)
    IN  IF end <= Len(src) /\ src[end] = DQuote
        THEN /\ call.err = ""
             /\ call.s.pos = end
             /\ call.arg = Decoded(src, call.from, call.from + 1, end - 1)
        ELSE call.err = errUnclosedQuoted

End3q(src, from) ==
    Least({k \in (from + 1)..(Len(src) - 2) :
              /\ ~EscapedAt(src, from, k)
              /\ src[k] = DQuote /\ src[k + 1] = DQuote /\ src[k + 2] = DQuote},
          Len(src) + 1)

Returned3q == call.fn = "lex3qArgument" /\ call.status = "returned"

\* what the claim says of a call of lex3qArgument that has returned
Quoted3qOutcome ==
    LET src == call.s.src
        end == End3q(src, call.from)
    IN  IF end <= Len(src)
        THEN /\ call.err = ""
             /\ call.s.pos = end + 2
             /\ call.arg = Decoded(src, call.from, call.from + 1, end - 1)
             /\ call.ogarg = SubSeq(src, call.from + 1, end - 1)
        ELSE call.err = errUnclosedQuoted

----------------------------------------------------------------------------
(* Properties of parse as a function *)

\* the state machine of parse returns what the function parse computes
ParseAgrees ==
    result.status \in {"ok", "error", "panic"} => result = parse(tokens)

IsIgnored(t) == t.Type \in {"TokWhitespace", "TokComment"}

\* ts with its whitespace and comment tokens removed
Significant(ts) == SelectSeq(ts, LAMBDA t : ~IsIgnored(t))

\* both fail, or both succeed with equal directive forests
SameOutcome(r1, r2) ==
    IF r1.status = "ok" \/ r2.status = "ok"
    THEN r1.status = r2.status /\ r1.p = r2.p
    ELSE TRUE

\* C17: whitespace and comment tokens are ignored for tree assembly. parse of
\* a token sequence and parse of the sequence with all its whitespace and
\* comment tokens removed have the same outcome: both fail or both succeed
\* with equal directive forests. (Two sequences that differ in whitespace and
\* comment tokens only have the same sequence left after the removal.)
C17_IgnoredTokens ==
    result.status \in {"ok", "error", "panic"} =>
        SameOutcome(result, parse(Significant(tokens)))

----------------------------------------------------------------------------
(* Properties of lex: punctuator arguments *)

\* the configured literals that are a prefix of src from the 0-based
\* position q on
LiteralsAt(src, q) ==
    {lit \in {punctuatorList[k] : k \in 1..Len(punctuatorList)} :
        /\ q + Len(lit) <= Len(src)
        /\ SubSeq(src, q + 1, q + Len(lit)) = lit}

\* the longest of them
LongestLiteralAt(src, q) ==
    CHOOSE lit \in LiteralsAt(src, q) :
        \A other \in LiteralsAt(src, q) : Len(other) <= Len(lit)

\* the cases of the switch of lex that come before the punctuator case
BeforePunctuator ==
    {"newline", "whitespace", "lineComment", "hashComment", "blockComment",
     "semicolon", "openBrace", "closeBrace", "lineContinuation", "expression"}

\* an iteration of lex reaches the punctuator case with a literal at the cursor
AtLiteral ==
    /\ lexed.status = "running"
    /\ reading(stream)
    /\ current(stream).err = ""
    /\ Has(exts, ExtPunctuatorArguments)
    /\ lexCase(stream, exts) \notin BeforePunctuator
    /\ LiteralsAt(stream.src, stream.pos) # {}

\* the token produced is an argument, the longest literal at the cursor
LiteralLexed ==
    LET lit == LongestLiteralAt(stream.src, stream.pos)
    IN  /\ lexTs' = Append(lexTs, lexToken("tok0qArgument", lit, lit))
        /\ stream'.pos = stream.pos + Len(lit)
        /\ lexed' = lexed

\* an iteration of lex has lexed an unquoted argument with literals configured
UnquotedLexed ==
    /\ AtCase("unquoted")
    /\ Has(exts, ExtPunctuatorArguments)
    /\ Len(lexTs') = Len(lexTs) + 1
    /\ lexed'.status = "running"

\* C18 as stated: with punctuator_arguments active, where the punctuator case
\* is reached with one or more configured literals at the cursor, the token
\* produced is an argument whose content and verbatim text are the longest
\* of them; and an unquoted argument stops before the first position at
\* which a configured literal matches.
C18_Punctuators ==
    [][/\ AtLiteral => LiteralLexed
       /\ UnquotedLexed =>
            \A q \in stream.pos..(stream'.pos - 1) :
                LiteralsAt(stream.src, q) = {}]_vars

\* C18, amended: the same, but the unquoted argument stops before the first
\* position at which a configured literal matches and which is not that of a
\* scalar escaped by a backslash; an escaped scalar is content.
C18_PunctuatorsUnescaped ==
    [][/\ AtLiteral => LiteralLexed
       /\ UnquotedLexed =>
            \A q \in stream.pos..(stream'.pos - 1) :
                LiteralsAt(stream.src, q) # {} =>
                    EscapedAt(stream.src, stream.pos, q + 1)]_vars

\* an unquoted argument has stopped before a literal, and the longer of the
\* two literals at that position has been lexed as an argument
C18_Witness ==
    /\ Has(exts, ExtPunctuatorArguments)
    /\ lexTs = <<lexToken("tok0qArgument", <<LetterA>>, <<LetterA>>),
                 lexToken("tok0qArgument", <<Equals, Equals>>, <<Equals, Equals>>)>>

----------------------------------------------------------------------------
(* Termination of lex *)

\* the call has returned, or its cursor is strictly further forward and
\* within the input
CallAdvanced ==
    \/ call'.status = "returned"
    \/ /\ call'.s.pos > call.s.pos
       /\ call'.s.pos <= Len(call.s.src)

\* C19: lex terminates. Every iteration of the main loop returns or leaves
\* the cursor strictly further forward with exactly one token appended, so
\* that no token is produced without a scalar consumed; every iteration of
\* the loops of lex0qArgument and lex1qArgument returns or leaves the cursor
\* strictly further forward; every iteration of the loop of lex3qArgument
\* does so too, or it resets a positive count of pending quotes to zero with
\* the cursor where it was, after which the next iteration advances. The
\* cursor never passes the end of the input, so no loop goes round for ever.
C19_Progress ==
    [][/\ lexed.status = "running" =>
            \/ lexed'.status \in {"ok", "error"}
            \/ /\ lexed' = lexed
               /\ stream'.pos > stream.pos
               /\ stream'.pos <= Len(stream.src)
               /\ Len(lexTs') = Len(lexTs) + 1
       /\ (InCall("lex0qArgument") \/ InCall("lex1qArgument")) => CallAdvanced
       /\ InCall("lex3qArgument") =>
            \/ CallAdvanced
            \/ /\ call.endsMatched > 0
               /\ call'.endsMatched = 0
               /\ call'.s = call.s]_vars

\* lex3qArgument has reset the count of one pending quote before a scalar
\* that is not a quote, the cursor still at that scalar
C19_Witness ==
    /\ InCall("lex3qArgument")
    /\ call.endsMatched = 0
    /\ call.arg = <<DQuote>>
    /\ call.ogarg = <<DQuote>>
    /\ call.s.pos = call.from + 1
    /\ reading(call.s)

----------------------------------------------------------------------------
(* Properties of parse: a second block *)

\* a block has been parsed with no argument under construction in the
\* caller, whose last committed directive already has subdirectives
SecondBlockParsed ==
    /\ AtEnd
    /\ Len(stack) > 1
    /\ Caller.current.Arguments = <<>>
    /\ Len(Caller.p) > 0
    /\ Caller.p[Len(Caller.p)].Subdirectives # <<>>

\* C20: a block that attaches to the most recently committed directive
\* replaces the subdirectives of that directive. When the directive already
\* has subdirectives and another valid block follows with no argument token
\* in between, its subdirectives are afterwards exactly the children of the
\* second block; its arguments, and every other committed directive, are as
\* they were.
C20_SecondBlockReplaces ==
    [][SecondBlockParsed =>
            LET p == Caller.p
                q == stack'[Len(stack')].p
                n == Len(p)
            IN  /\ result' = result
                /\ Len(stack') = Len(stack) - 1
                /\ Len(q) = n
                /\ q[n].Subdirectives = parse(top.ts).p
                /\ q[n].Arguments = p[n].Arguments
                /\ \A k \in 1..(n - 1) : q[k] = p[k]]_vars

\* a { a } { b } has been parsed: the directive a has the one child b
C20_Witness ==
    /\ tokens = <<Token("TokArgument", "a")>>
                    \o Block(<<Token("TokArgument", "a")>>)
                    \o Block(<<Token("TokArgument", "b")>>)
    /\ result = Returned(<<Directive(<<"a">>, <<Directive(<<"b">>, <<>>)>>)>>)

====
